---- MODULE Spec2Model ----
(***************************************************************************)
(* Model of native/radix_simd.cpp: the 8-lane small-prime sieve            *)
(* (SIMDBatchProcessor), its Barrett reducer and the scalar trial          *)
(* division it falls back to.                                              *)
(*                                                                         *)
(* Machine integers keep their width.  A uint32_t is a sequence of two     *)
(* 16-bit limbs and a uint64_t a sequence of four, least significant limb  *)
(* first, so that 2^32 is <<0, 0, 1, 0>>.  Every arithmetic operator wraps *)
(* at the length of its operands, exactly as the unsigned C++ and NEON     *)
(* operations do.                                                          *)
(***************************************************************************)
EXTENDS Integers, Sequences, FiniteSets, TLC

---------------------------------------------------------------------------
(* Unsigned machine arithmetic on limb sequences.                          *)

Radix == 2^16

\* F applied to the values of its operands, each evaluated once.
Strict1(F(_), a) == CHOOSE r \in {F(x) : x \in {a}} : TRUE
Strict2(F(_, _), a, b) == CHOOSE r \in {F(x, y) : x \in {a}, y \in {b}} : TRUE

RECURSIVE Zero(_)
Zero(w) == IF w = 0 THEN <<>> ELSE <<0>> \o Zero(w - 1)

\* Integer literals below 2^31 as uint32_t and uint64_t values.
U32(v) == <<v % Radix, v \div Radix>>
U64(v) == <<v % Radix, v \div Radix, 0, 0>>

\* static_cast<uint32_t> of a uint64_t, and the conversion back.
Narrow(a) == <<a[1], a[2]>>
Widen(a) == <<a[1], a[2], 0, 0>>

IsZero(a) == \A k \in 1..Len(a) : a[k] = 0

\* a < b, operands of equal length: decided at the highest limb that differs.
RECURSIVE LtFrom(_, _, _)
LtFrom(a, b, k) ==
    IF k = 0 THEN FALSE
    ELSE IF a[k] # b[k] THEN a[k] < b[k]
    ELSE LtFrom(a, b, k - 1)

Lt(a, b) == Strict2(LAMBDA x, y : LtFrom(x, y, Len(x)), a, b)
Leq(a, b) == ~Lt(b, a)

RECURSIVE AddFrom(_, _, _, _)
AddFrom(a, b, k, c) ==
    IF k > Len(a) THEN <<>>
    ELSE <<(a[k] + b[k] + c) % Radix>>
         \o AddFrom(a, b, k + 1, (a[k] + b[k] + c) \div Radix)

\* a + b modulo 2^(16 * Len(a)).
Add(a, b) == Strict2(LAMBDA x, y : AddFrom(x, y, 1, 0), a, b)

RECURSIVE SubFrom(_, _, _, _)
SubFrom(a, b, k, c) ==
    IF k > Len(a) THEN <<>>
    ELSE <<(a[k] + Radix - b[k] - c) % Radix>>
         \o SubFrom(a, b, k + 1, IF a[k] - b[k] - c < 0 THEN 1 ELSE 0)

\* a - b modulo 2^(16 * Len(a)).
Sub(a, b) == Strict2(LAMBDA x, y : SubFrom(x, y, 1, 0), a, b)

\* The 32-bit product of two limbs, as its low and its high limb: with
\* b = 256 * bh + bl, a * b = a * bl + 256 * (a * bh).
MulLimbLo(a, b) ==
    (a * (b % 256) + ((a * (b \div 256)) % 256) * 256) % Radix
MulLimbHi(a, b) ==
    ((a * (b % 256) + ((a * (b \div 256)) % 256) * 256) \div Radix)
    + ((a * (b \div 256)) \div 256)

\* a times the limb m, plus the carry c, modulo 2^(16 * Len(a)).
RECURSIVE MulSmallFrom(_, _, _, _)
MulSmallFrom(a, m, k, c) ==
    IF k > Len(a) THEN <<>>
    ELSE <<(MulLimbLo(a[k], m) + c) % Radix>>
         \o MulSmallFrom(a, m, k + 1,
                         MulLimbHi(a[k], m) + ((MulLimbLo(a[k], m) + c) \div Radix))

MulSmall(a, m) == Strict2(LAMBDA x, y : MulSmallFrom(x, y, 1, 0), a, m)

\* a shifted left by s limbs, modulo 2^(16 * Len(a)).
ShiftLimbs(a, s) == Strict1(LAMBDA x : Zero(s) \o SubSeq(x, 1, Len(x) - s), a)

RECURSIVE MulFrom(_, _, _)
MulFrom(a, b, k) ==
    IF k > Len(b) THEN Zero(Len(a))
    ELSE IF b[k] = 0 THEN MulFrom(a, b, k + 1)
    ELSE Add(ShiftLimbs(MulSmall(a, b[k]), k - 1), MulFrom(a, b, k + 1))

\* a * b modulo 2^(16 * Len(a)).
Mul(a, b) == Strict2(LAMBDA x, y : MulFrom(x, y, 1), a, b)

\* Division by a divisor below 2^15 (one short limb), limb by limb from
\* the top: ShortRem is the remainder of the limbs k.. of a.
IsShort(m) == m[1] < 2^15 /\ \A k \in 2..Len(m) : m[k] = 0

RECURSIVE ShortRem(_, _, _)
ShortRem(a, m, k) ==
    IF k > Len(a) THEN 0
    ELSE (ShortRem(a, m, k + 1) * Radix + a[k]) % m

RECURSIVE ShortQuotFrom(_, _, _)
ShortQuotFrom(a, m, k) ==
    IF k > Len(a) THEN <<>>
    ELSE <<(ShortRem(a, m, k + 1) * Radix + a[k]) \div m>> \o ShortQuotFrom(a, m, k + 1)

\* Division by any other divisor, limb by limb from the top, each quotient
\* limb found bit by bit; t and e are one limb longer than the operands.
RECURSIVE QuotLimb(_, _, _, _)
QuotLimb(t, e, b, acc) ==
    IF b < 0 THEN acc
    ELSE IF Leq(MulSmall(e, acc + 2^b), t)
         THEN QuotLimb(t, e, b - 1, acc + 2^b)
         ELSE QuotLimb(t, e, b - 1, acc)

QuotDigit(t, e) == Strict2(LAMBDA x, y : QuotLimb(x, y, 15, 0), t, e)

\* t - e * (the quotient limb of t by e).
LongStep(t, e) == Strict2(LAMBDA x, y : Sub(x, MulSmall(y, QuotDigit(x, y))), t, e)

RECURSIVE LongRem(_, _, _)
LongRem(a, m, k) ==
    IF k > Len(a) THEN Zero(Len(a) + 1)
    ELSE LongStep(Add(ShiftLimbs(LongRem(a, m, k + 1), 1), <<a[k]>> \o Zero(Len(a))),
                  m \o <<0>>)

RECURSIVE LongQuotFrom(_, _, _)
LongQuotFrom(a, m, k) ==
    IF k > Len(a) THEN <<>>
    ELSE <<QuotDigit(Add(ShiftLimbs(LongRem(a, m, k + 1), 1), <<a[k]>> \o Zero(Len(a))),
                     m \o <<0>>)>>
         \o LongQuotFrom(a, m, k + 1)

\* a % m and a / m for m # 0, operands of equal length.
Mod(a, m) ==
    Strict2(LAMBDA x, y : IF IsShort(y) THEN <<ShortRem(x, y[1], 1)>> \o Zero(Len(x) - 1)
                          ELSE SubSeq(LongRem(x, y, 1), 1, Len(x)),
            a, m)

Div(a, m) ==
    Strict2(LAMBDA x, y : IF IsShort(y) THEN ShortQuotFrom(x, y[1], 1)
                          ELSE LongQuotFrom(x, y, 1),
            a, m)

\* Bitwise operations on limbs and on uint32_t values.
RECURSIVE AndLimb(_, _)
AndLimb(a, b) ==
    IF a = 0 \/ b = 0 THEN 0
    ELSE (a % 2) * (b % 2) + 2 * AndLimb(a \div 2, b \div 2)

And(a, b) ==
    Strict2(LAMBDA x, y : <<AndLimb(x[1], y[1]), AndLimb(x[2], y[2])>>, a, b)
Or(a, b) ==
    Strict2(LAMBDA x, y : <<x[1] + y[1] - AndLimb(x[1], y[1]),
                            x[2] + y[2] - AndLimb(x[2], y[2])>>, a, b)
Not(a) == Strict1(LAMBDA x : <<(Radix - 1) - x[1], (Radix - 1) - x[2]>>, a)

---------------------------------------------------------------------------
(* Constants of the program.                                               *)

kSmallPrimes == <<2, 3, 5, 7, 11, 13, 17, 19>>
kExtendedPrimes == <<23, 29, 31, 37, 41, 43, 47, 53>>

\* The order in which lines 150-155 hand the primes to sieve.
SievePrimes == kSmallPrimes \o kExtendedPrimes

UINT32_MAX == <<65535, 65535, 0, 0>>

GroupSize == 8
SimdThreshold == 16

---------------------------------------------------------------------------
(* NEON intrinsics.  A uint32x4_t is a sequence of four uint32 lanes, a    *)
(* uint32x2_t of two, a uint64x2_t of two uint64 lanes.                    *)

AllOnes == <<65535, 65535>>

\* op on each of the four lanes.
Lanewise2(op(_, _), a, b) ==
    Strict2(LAMBDA x, y : <<op(x[1], y[1]), op(x[2], y[2]), op(x[3], y[3]), op(x[4], y[4])>>,
            a, b)

vdupq_n_u32(v) == Strict1(LAMBDA x : <<x, x, x, x>>, v)
vget_low_u32(v) == Strict1(LAMBDA x : <<x[1], x[2]>>, v)
vget_high_u32(v) == Strict1(LAMBDA x : <<x[3], x[4]>>, v)
vcombine_u32(lo, hi) == lo \o hi
vmull_u32(a, b) ==
    Strict2(LAMBDA x, y : <<Mul(Widen(x[1]), Widen(y[1])), Mul(Widen(x[2]), Widen(y[2]))>>,
            a, b)
\* A narrowing without the shift: the low 32 bits of each lane.
vmovn_u64(v) == Strict1(LAMBDA x : << <<x[1][1], x[1][2]>>, <<x[2][1], x[2][2]>> >>, v)
\* vshrn_n_u64(v, 32): shift each lane right by 32 bits, keep the low 32.
vshrn_n_u64_32(v) == Strict1(LAMBDA x : << <<x[1][3], x[1][4]>>, <<x[2][3], x[2][4]>> >>, v)
vmulq_u32(a, b) == Lanewise2(Mul, a, b)
vsubq_u32(a, b) == Lanewise2(Sub, a, b)
GeMask(a, b) == IF Leq(b, a) THEN AllOnes ELSE <<0, 0>>
EqMask(a, b) == IF a = b THEN AllOnes ELSE <<0, 0>>
vcgeq_u32(a, b) == Lanewise2(GeMask, a, b)
vceqq_u32(a, b) == Lanewise2(EqMask, a, b)
vandq_u32(a, b) == Lanewise2(And, a, b)
vorrq_u32(a, b) == Lanewise2(Or, a, b)
\* The operand itself, not inverted.
vmvnq_u32_dropped(a) == a
vmvnq_u32(a) == Strict1(LAMBDA x : <<Not(x[1]), Not(x[2]), Not(x[3]), Not(x[4])>>, a)

---------------------------------------------------------------------------
(* The Barrett reducer.                                                    *)

\* (uint32_t)(((uint64_t)(1ULL << 32) + p - 1) / p), p a uint32_t.
make_barrett_magic(p) ==
    Narrow(Div(Sub(Add(<<0, 0, 1, 0>>, Widen(p)), U64(1)), Widen(p)))

\* The two remainders, <<remainder1, remainder2>>.
barrett_modq_u32_dual(n_v1, n_v2, magic_vec, p_vec) ==
    LET lo1 == vmull_u32(vget_low_u32(n_v1), vget_low_u32(magic_vec))
        hi1 == vmull_u32(vget_high_u32(n_v1), vget_high_u32(magic_vec))
        lo2 == vmull_u32(vget_low_u32(n_v2), vget_low_u32(magic_vec))
        hi2 == vmull_u32(vget_high_u32(n_v2), vget_high_u32(magic_vec))
        q_vec1 == vcombine_u32(vshrn_n_u64_32(lo1), vshrn_n_u64_32(hi1))
        q_vec2 == vcombine_u32(vshrn_n_u64_32(lo2), vshrn_n_u64_32(hi2))
    IN  Strict2(LAMBDA rem1, rem2 :
                    <<vsubq_u32(rem1, vandq_u32(vcgeq_u32(rem1, p_vec), p_vec)),
                      vsubq_u32(rem2, vandq_u32(vcgeq_u32(rem2, p_vec), p_vec))>>,
                vsubq_u32(n_v1, vmulq_u32(q_vec1, p_vec)),
                vsubq_u32(n_v2, vmulq_u32(q_vec2, p_vec)))

---------------------------------------------------------------------------
(* Scalar trial division as a function of n.                               *)

MaxTrial == 32

\* The loop of lines 75-79 stops at divisor d when d * d (wrapping) exceeds
\* n, or when d divides n.
TrialCond(n, d) == Leq(Mul(d, d), n)
TrialDivides(n, d) == IsZero(Mod(n, d))
\* An update of the divisor that does not advance it.
TrialNextStuck(d) == d
TrialNext(d) == Add(d, U64(2))

\* The value is_prime_scalar returns for n, for the n whose loop stops
\* within MaxTrial iterations: the loop runs d = 3, 5, 7, ... up to the
\* first d at which it stops, and returns whether it stopped on d * d > n.
is_prime_scalar(n) ==
    IF Lt(n, U64(2)) THEN FALSE
    ELSE IF IsZero(Mod(n, U64(2))) THEN n = U64(2)
    ELSE LET stops == {k \in 1..MaxTrial :
                          \/ ~TrialCond(n, U64(2 * k + 1))
                          \/ TrialDivides(n, U64(2 * k + 1))}
             first == CHOOSE k \in stops : \A l \in stops : k <= l
         IN  ~TrialCond(n, U64(2 * first + 1))

---------------------------------------------------------------------------
(* The sieve step of lines 131-148 on the two register pairs: the new      *)
(* masks and the remainders it computed.                                   *)

\* The sieve step without the exception of lines 141-144 for a candidate
\* equal to the prime.
sieve_without_self(prime_, nv1, nv2, mask1, mask2) ==
    Strict2(LAMBDA p_vec, m_vec :
        Strict1(LAMBDA r :
            [mask1 |-> vorrq_u32(mask1, vceqq_u32(r[1], vdupq_n_u32(<<0, 0>>))),
             mask2 |-> vorrq_u32(mask2, vceqq_u32(r[2], vdupq_n_u32(<<0, 0>>))),
             r1 |-> r[1], r2 |-> r[2]],
            barrett_modq_u32_dual(nv1, nv2, m_vec, p_vec)),
        vdupq_n_u32(U32(prime_)),
        vdupq_n_u32(make_barrett_magic(U32(prime_))))

\* The sieve step assigning the mask where lines 146-147 OR into it.
sieve_assigning(prime_, nv1, nv2, mask1, mask2) ==
    Strict2(LAMBDA p_vec, m_vec :
        Strict1(LAMBDA r :
            [mask1 |-> vandq_u32(vceqq_u32(r[1], vdupq_n_u32(<<0, 0>>)),
                                 vmvnq_u32(vceqq_u32(nv1, p_vec))),
             mask2 |-> vandq_u32(vceqq_u32(r[2], vdupq_n_u32(<<0, 0>>)),
                                 vmvnq_u32(vceqq_u32(nv2, p_vec))),
             r1 |-> r[1], r2 |-> r[2]],
            barrett_modq_u32_dual(nv1, nv2, m_vec, p_vec)),
        vdupq_n_u32(U32(prime_)),
        vdupq_n_u32(make_barrett_magic(U32(prime_))))

sieve(prime_, nv1, nv2, mask1, mask2) ==
    Strict2(LAMBDA p_vec, m_vec :
        Strict1(LAMBDA r :
            LET divisible1 == vandq_u32(vceqq_u32(r[1], vdupq_n_u32(<<0, 0>>)),
                                        vmvnq_u32(vceqq_u32(nv1, p_vec)))
                divisible2 == vandq_u32(vceqq_u32(r[2], vdupq_n_u32(<<0, 0>>)),
                                        vmvnq_u32(vceqq_u32(nv2, p_vec)))
            IN  [mask1 |-> vorrq_u32(mask1, divisible1),
                 mask2 |-> vorrq_u32(mask2, divisible2),
                 r1 |-> r[1], r2 |-> r[2]],
            barrett_modq_u32_dual(nv1, nv2, m_vec, p_vec)),
        vdupq_n_u32(U32(prime_)),
        vdupq_n_u32(make_barrett_magic(U32(prime_))))

---------------------------------------------------------------------------
(* Inputs.  Pool holds candidates of at most 32 bits: 0, 1, the sixteen    *)
(* bank primes, small composites and primes above the bank, and values     *)
(* near 2^28 .. 2^32 at which the quotient estimate of the reducer is one  *)
(* too large for some bank prime.  BigPool holds candidates above 2^32-1.  *)
(* Every member either has a bank prime as a proper divisor or leaves the  *)
(* trial-division loop within MaxTrial iterations.                         *)

MaxLen == 25

Pool ==
    << U64(0), U64(1), U64(2), U64(3),
       U64(4), U64(5), U64(7), U64(9),
       U64(11), U64(13), U64(17), U64(19),
       U64(23), U64(29), U64(31), U64(37),
       U64(41), U64(43), U64(47), U64(53),
       U64(59), U64(91), U64(97), U64(2809),
       U64(3481), U64(3599), U64(3607), U64(1009),
       <<0, 32768, 0, 0>>,          \* 2^31
       <<65535, 65535, 0, 0>>,      \* 2^32 - 1
       <<65534, 65535, 0, 0>>,      \* 2^32 - 2
       <<0, 16384, 0, 0>>,          \* 2^30
       <<21850, 21845, 0, 0>>,      \* 1431655770
       <<18734, 9362, 0, 0>>,       \* 613566766
       <<0, 4096, 0, 0>>,           \* 2^28
       <<15131, 5041, 0, 0>>,       \* 330382107
       <<53635, 5957, 0, 0>>,       \* 390451587
       <<17000, 2427, 0, 0>>,       \* 159072872
       <<13126, 13107, 0, 0>>,      \* 858993478
       <<15146, 5041, 0, 0>>,       \* 330382122
       <<16994, 2427, 0, 0>>,       \* 159072866
       <<53630, 5957, 0, 0>>,       \* 390451582
       <<65482, 65535, 0, 0>>,      \* 4294967242
       <<38888, 65535, 0, 0>>,      \* 4294940648
       <<40710, 65534, 0, 0>>,      \* 4294876934
       <<60987, 65535, 0, 0>>,      \* 4294962747
       <<65249, 65535, 0, 0>>,      \* 4294967009 = 59 * 72796051
       <<65113, 65535, 0, 0>> >>    \* 4294966873 = 61 * 70409293

BigPool ==
    << <<0, 0, 1, 0>>,                    \* 2^32
       <<7, 0, 1, 0>>,                    \* 2^32 + 7 = 11 * 390451573
       <<65535, 65535, 65535, 65535>>,    \* 2^64 - 1
       <<885, 0, 59, 0>>,                 \* 59 * (2^32 + 15)
       <<1, 0, 65534, 65535>>,            \* (2^32 - 1)^2
       <<65535, 65535, 65535, 32767>> >>  \* 2^63 - 1 = 7^2 * 73 * ...

\* 2^64 - 59, the largest prime below 2^64, and the divisor 2^32 - 3.
HugePrime == <<65477, 65535, 65535, 65535>>
HugeDivisor == <<65533, 65535, 0, 0>>

Universe == {Pool[k] : k \in 1..Len(Pool)} \cup {BigPool[k] : k \in 1..Len(BigPool)}

\* is_prime_scalar on the candidates of the pools.
ScalarVerdict == [v \in Universe |-> is_prime_scalar(v)]

\* L candidates: a window of Pool starting at s, with the candidate at
\* index big (if any) replaced by a member of BigPool.
InputAt(L, s, big) ==
    [k \in 1..L |-> IF k - 1 = big THEN BigPool[(big % Len(BigPool)) + 1]
                    ELSE Pool[((s + k - 1) % Len(Pool)) + 1]]

Starts == {9 * c : c \in 0..5}

Inputs ==
    {InputAt(L, s, -1) : L \in 0..MaxLen, s \in Starts}
    \cup UNION {{InputAt(L, (7 * b) % Len(Pool), b) : b \in 0..(L - 1)} : L \in 1..MaxLen}

---------------------------------------------------------------------------
(* State.                                                                  *)

VARIABLES
    numbers,          \* the argument of process
    results,          \* the vector<bool> it fills
    pc,               \* where the call of process stands
    i,                \* the group loop of line 106
    n_vec1, n_vec2,   \* the eight narrowed candidates of the group
    composite_mask1, composite_mask2,
    r_vec1, r_vec2,   \* the remainders of the last sieve call
    tested,           \* how many primes sieve has been called with
    prime,            \* the last prime sieve was called with
    j,                \* the lane the loops of lines 162-175 stand at
    ps_first, ps_count, ps_i, ps_ret,   \* the call of process_scalar
    n, d, ret, caller,                  \* the call of is_prime_scalar
    iters,            \* iterations of the trial loop in this call
    writes,           \* assignments to each element of results so far
    calls             \* calls of is_prime_scalar for each element so far

vars == <<numbers, results, pc, i, n_vec1, n_vec2, composite_mask1,
          composite_mask2, r_vec1, r_vec2, tested, prime, j, ps_first,
          ps_count, ps_i, ps_ret, n, d, ret, caller, iters, writes, calls>>

vecs == <<n_vec1, n_vec2, composite_mask1, composite_mask2, r_vec1, r_vec2,
          tested, prime>>
frame_ps == <<ps_first, ps_count, ps_i, ps_ret>>
frame_ip == <<n, d, ret, caller, iters>>

count == Len(numbers)

NoVec == vdupq_n_u32(<<0, 0>>)

Idle ==
    /\ i = 0 /\ j = 0 /\ tested = 0 /\ prime = 0
    /\ n_vec1 = NoVec /\ n_vec2 = NoVec
    /\ composite_mask1 = NoVec /\ composite_mask2 = NoVec
    /\ r_vec1 = NoVec /\ r_vec2 = NoVec

\* main calls process with an empty results vector (line 198).
InitCall ==
    /\ numbers \in Inputs
    /\ results = <<>>
    /\ pc = "process"
    /\ Idle
    /\ ps_first = 0 /\ ps_count = 0 /\ ps_i = 0 /\ ps_ret = "none"
    /\ n = U64(0) /\ d = U64(0) /\ ret = FALSE /\ caller = "none" /\ iters = 0
    /\ writes = [k \in 1..(count + GroupSize) |-> 0]
    /\ calls = [k \in 1..(count + GroupSize) |-> 0]

\* process(<<HugePrime>>) after the first 2^31 - 3 iterations of the trial
\* loop: HugePrime is prime, so none of 3, 5, ..., 2^32 - 5 divides it, and
\* the square of each is below it, so the loop stands at d = 2^32 - 3 with
\* nothing written yet.
InitDeep ==
    /\ numbers = <<HugePrime>>
    /\ results = <<FALSE>>
    /\ pc = "trial"
    /\ Idle
    /\ ps_first = 0 /\ ps_count = 1 /\ ps_i = 0 /\ ps_ret = "process"
    /\ n = HugePrime /\ d = HugeDivisor /\ ret = FALSE /\ caller = "scalar"
    /\ iters = 0
    /\ writes = [k \in 1..(1 + GroupSize) |-> 0]
    /\ calls = [k \in 1..(1 + GroupSize) |-> IF k = 1 THEN 1 ELSE 0]

Init == InitCall \/ InitDeep

---------------------------------------------------------------------------
(* Calls and assignments shared by the actions.                            *)

\* results[idx] = v, idx counted from 0.
Assign(idx, v) ==
    /\ results' = [results EXCEPT ![idx + 1] = v]
    /\ writes' = [writes EXCEPT ![idx + 1] = @ + 1]

\* Enter is_prime_scalar(numbers[idx]) on behalf of results[idx].
CallIsPrime(idx, from) ==
    /\ n' = numbers[idx + 1]
    /\ d' = U64(0)
    /\ ret' = FALSE
    /\ caller' = from
    /\ iters' = 0
    /\ calls' = [calls EXCEPT ![idx + 1] = @ + 1]
    /\ pc' = "is_prime"

\* Enter process_scalar(&numbers[first], &results[first], cnt).
CallProcessScalar(first, cnt, back) ==
    /\ ps_first' = first
    /\ ps_count' = cnt
    /\ ps_i' = 0
    /\ ps_ret' = back
    /\ pc' = "scalar"

---------------------------------------------------------------------------
(* process, lines 85-94.                                                   *)

Process ==
    /\ pc = "process"
    /\ results' = [k \in 1..count |-> IF k <= Len(results) THEN results[k] ELSE FALSE]
    /\ IF count >= SimdThreshold
       THEN /\ pc' = "batch"
            /\ i' = 0
            /\ UNCHANGED frame_ps
       ELSE /\ CallProcessScalar(0, count, "process")
            /\ UNCHANGED i
    /\ UNCHANGED <<numbers, vecs, j, frame_ip, writes, calls>>

---------------------------------------------------------------------------
(* process_scalar, lines 97-101.                                           *)

ScalarCall ==
    /\ pc = "scalar"
    /\ ps_i < ps_count
    /\ CallIsPrime(ps_first + ps_i, "scalar")
    /\ UNCHANGED <<numbers, results, i, vecs, j, frame_ps, writes>>

ScalarAssign ==
    /\ pc = "return"
    /\ caller = "scalar"
    /\ Assign(ps_first + ps_i, ret)
    /\ ps_i' = ps_i + 1
    /\ pc' = "scalar"
    /\ UNCHANGED <<numbers, i, vecs, j, ps_first, ps_count, ps_ret, frame_ip, calls>>

\* The loop is over: back to line 118 (continue), or to the end of process.
ScalarReturn ==
    /\ pc = "scalar"
    /\ ps_i >= ps_count
    /\ IF ps_ret = "batch"
       THEN /\ i' = i + GroupSize
            /\ pc' = "batch"
       ELSE /\ pc' = "done"
            /\ UNCHANGED i
    /\ UNCHANGED <<numbers, results, vecs, j, frame_ps, frame_ip, writes, calls>>

---------------------------------------------------------------------------
(* is_prime_scalar, lines 68-81.                                           *)

IsPrimeEntry ==
    /\ pc = "is_prime"
    /\ IF Lt(n, U64(2))
       THEN /\ ret' = FALSE
            /\ pc' = "return"
            /\ UNCHANGED d
       ELSE IF IsZero(Mod(n, U64(2)))
       THEN /\ ret' = (n = U64(2))
            /\ pc' = "return"
            /\ UNCHANGED d
       ELSE /\ d' = U64(3)
            /\ pc' = "trial"
            /\ UNCHANGED ret
    /\ UNCHANGED <<numbers, results, i, vecs, j, frame_ps, n, caller, iters, writes, calls>>

\* One evaluation of the loop condition and, if it holds, of the body.
TrialStep ==
    /\ pc = "trial"
    /\ iters < MaxTrial
    /\ IF TrialCond(n, d)
       THEN IF TrialDivides(n, d)
            THEN /\ ret' = FALSE
                 /\ pc' = "return"
                 /\ UNCHANGED <<d, iters>>
            ELSE /\ d' = TrialNext(d)
                 /\ iters' = iters + 1
                 /\ UNCHANGED <<ret, pc>>
       ELSE /\ ret' = TRUE
            /\ pc' = "return"
            /\ UNCHANGED <<d, iters>>
    /\ UNCHANGED <<numbers, results, i, vecs, j, frame_ps, n, caller, writes, calls>>

---------------------------------------------------------------------------
(* process_batch_simd_real_8lane, lines 103-182.                           *)

\* A range guard that looks at the first four candidates only.
can_use_neon_low_half(first) ==
    \A jj \in 0..3 : ~Lt(UINT32_MAX, numbers[first + jj + 1])

\* Lines 109-115.
can_use_neon(first) ==
    \A jj \in 0..(GroupSize - 1) : ~Lt(UINT32_MAX, numbers[first + jj + 1])

\* Lines 121-129: narrow the eight candidates, clear the masks.
BatchVector ==
    /\ pc = "batch"
    /\ i + GroupSize <= count
    /\ can_use_neon(i)
    /\ n_vec1' = <<Narrow(numbers[i + 1]), Narrow(numbers[i + 2]),
                   Narrow(numbers[i + 3]), Narrow(numbers[i + 4])>>
    /\ n_vec2' = <<Narrow(numbers[i + 4 + 1]), Narrow(numbers[i + 4 + 2]),
                   Narrow(numbers[i + 4 + 3]), Narrow(numbers[i + 4 + 4])>>
    /\ composite_mask1' = vdupq_n_u32(<<0, 0>>)
    /\ composite_mask2' = vdupq_n_u32(<<0, 0>>)
    /\ tested' = 0
    /\ pc' = "sieve"
    /\ UNCHANGED <<numbers, results, i, r_vec1, r_vec2, prime, j, frame_ps,
                   frame_ip, writes, calls>>

\* Lines 116-119.
BatchFallback ==
    /\ pc = "batch"
    /\ i + GroupSize <= count
    /\ ~can_use_neon(i)
    /\ CallProcessScalar(i, GroupSize, "batch")
    /\ UNCHANGED <<numbers, results, i, vecs, j, frame_ip, writes, calls>>

\* A remainder taken modulo the threshold of line 89.
remaining_of_threshold == count % SimdThreshold
remaining == count % GroupSize

\* Lines 178-181.
BatchRemainder ==
    /\ pc = "batch"
    /\ ~(i + GroupSize <= count)
    /\ IF remaining # 0
       THEN CallProcessScalar(count - remaining, remaining, "process")
       ELSE /\ pc' = "done"
            /\ UNCHANGED frame_ps
    /\ UNCHANGED <<numbers, results, i, vecs, j, frame_ip, writes, calls>>

\* Lines 150-155: the next call of sieve.
Sieve ==
    /\ pc = "sieve"
    /\ tested < Len(SievePrimes)
    /\ \E s \in {sieve(SievePrimes[tested + 1], n_vec1, n_vec2,
                      composite_mask1, composite_mask2)} :
           /\ composite_mask1' = s.mask1
           /\ composite_mask2' = s.mask2
           /\ r_vec1' = s.r1
           /\ r_vec2' = s.r2
    /\ prime' = SievePrimes[tested + 1]
    /\ tested' = tested + 1
    /\ IF tested + 1 = Len(SievePrimes)
       THEN pc' = "resolve" /\ j' = 0
       ELSE pc' = "sieve" /\ UNCHANGED j
    /\ UNCHANGED <<numbers, results, i, n_vec1, n_vec2, frame_ps, frame_ip,
                   writes, calls>>

\* The flag of a lane read from composite_flags1 in both loops.
composite_flags1_only(lane) == ~IsZero(composite_mask1[(lane % 4) + 1])

\* Lines 157-160: composite_flags1[j] or composite_flags2[j - 4].
composite_flag(lane) ==
    IF lane < 4 THEN ~IsZero(composite_mask1[lane + 1])
    ELSE ~IsZero(composite_mask2[lane - 4 + 1])

\* After the assignment of lane j: the next lane, or the next group.
NextLane ==
    IF j + 1 < GroupSize
    THEN /\ j' = j + 1
         /\ pc' = "resolve"
         /\ UNCHANGED i
    ELSE /\ j' = 0
         /\ i' = i + GroupSize
         /\ pc' = "batch"

\* Lines 163-164 and 170-171.
ResolveComposite ==
    /\ pc = "resolve"
    /\ composite_flag(j)
    /\ Assign(i + j, FALSE)
    /\ NextLane
    /\ UNCHANGED <<numbers, vecs, frame_ps, frame_ip, calls>>

\* Lines 165-166 and 172-173.
ResolveCall ==
    /\ pc = "resolve"
    /\ ~composite_flag(j)
    /\ CallIsPrime(i + j, "lane")
    /\ UNCHANGED <<numbers, results, i, vecs, j, frame_ps, writes>>

ResolveAssign ==
    /\ pc = "return"
    /\ caller = "lane"
    /\ Assign(i + j, ret)
    /\ NextLane
    /\ UNCHANGED <<numbers, vecs, frame_ps, frame_ip, calls>>

---------------------------------------------------------------------------

Next ==
    \/ Process
    \/ ScalarCall
    \/ ScalarAssign
    \/ ScalarReturn
    \/ IsPrimeEntry
    \/ TrialStep
    \/ BatchVector
    \/ BatchFallback
    \/ BatchRemainder
    \/ Sieve
    \/ ResolveComposite
    \/ ResolveCall
    \/ ResolveAssign

Spec == Init /\ [][Next]_vars

\* process runs on one thread from entry to return: a step that can be
\* taken is taken.
FairSpec == Spec /\ WF_vars(Next)

---------------------------------------------------------------------------
(* What the properties below speak about.                                  *)

Lanes == 0..7

\* The bank of the specification, in ascending order.
Bank == <<2, 3, 5, 7, 11, 13, 17, 19, 23, 29, 31, 37, 41, 43, 47, 53>>

LaneValue(l) == IF l < 4 THEN n_vec1[l + 1] ELSE n_vec2[l - 3]
LaneMask(l) == IF l < 4 THEN composite_mask1[l + 1] ELSE composite_mask2[l - 3]
LaneRem(l) == IF l < 4 THEN r_vec1[l + 1] ELSE r_vec2[l - 3]
Flagged(l) == LaneMask(l) # <<0, 0>>

\* The small number p divides the value v: by division, not by the reducer.
Divides(p, v) == ShortRem(v, p, 1) = 0

Fits32(v) == ~Lt(UINT32_MAX, v)
IsBankPrime(v) == \E k \in 1..Len(Bank) : v = U64(Bank[k])

\* The group of eight starting at index first (from 0) is a complete group
\* of the >= 16 path, and one that is vectorized.
CompleteGroup(first) ==
    count >= 16 /\ first % 8 = 0 /\ first >= 0 /\ first + 8 <= count
VectorGroup(first) ==
    CompleteGroup(first) /\ \A l \in Lanes : Fits32(numbers[first + l + 1])
GuardedGroup(first) ==
    CompleteGroup(first) /\ \E l \in Lanes : ~Fits32(numbers[first + l + 1])

\* process is in the vectorized pass over the group at i: sieving it, or
\* resolving its lanes.
InCall == pc \in {"is_prime", "trial", "return"}
Sieving == pc = "sieve"
Resolving == pc = "resolve" \/ (InCall /\ caller = "lane")
InPass == Sieving \/ Resolving

\* The masks, remainders and narrowed candidates in the registers are
\* those of the group at first, whose pass is over.
PassOver(first) ==
    pc = "batch" /\ i = first + 8 /\ tested = 16 /\ VectorGroup(first)

\* Primality of the small candidates, by definition.
SmallValues == {v[1] : v \in {u \in Universe : IsShort(u)}}
MathPrime == [v \in SmallValues |-> v >= 2 /\ \A q \in 2..(v - 1) : v % q # 0]

---------------------------------------------------------------------------
\* C1: when process has returned, results[k] = is_prime_scalar(numbers[k])
\* for every index k, whichever path produced the verdict.
C1_AgreesWithScalar ==
    pc = "done" =>
        /\ Len(results) = count
        /\ \A k \in 1..count : results[k] = ScalarVerdict[numbers[k]]

\* A batch of 17 has returned whose first group mixes a candidate above
\* 2^32 - 1 with small ones and whose second, vectorized, group holds a prime.
C1_Witness ==
    /\ pc = "done" /\ count = 17
    /\ GuardedGroup(0) /\ VectorGroup(8)
    /\ \E k \in 1..8 : Fits32(numbers[k])
    /\ \E k \in 9..16 : results[k]

\* C2: after sieve(prime), every lane's remainder r satisfies 0 <= r < prime
\* and r = n mod prime.
C2_BarrettRemainder ==
    tested >= 1 =>
        \A l \in Lanes :
            /\ Lt(LaneRem(l), U32(prime))
            /\ LaneRem(l) = Mod(LaneValue(l), U32(prime))

\* C3: in a vectorized group, a candidate equal to a bank prime is never
\* flagged during the pass over the bank, and its verdict is true.
C3_BankPrimesSurvive ==
    /\ InPass =>
         \A l \in Lanes : IsBankPrime(numbers[i + l + 1]) => ~Flagged(l)
    /\ \A first \in {i - 8} :
         PassOver(first) =>
             \A l \in Lanes : IsBankPrime(numbers[first + l + 1]) =>
                 ~Flagged(l) /\ results[first + l + 1]
    /\ pc = "done" =>
         \A k \in 1..count :
             (VectorGroup(8 * ((k - 1) \div 8)) /\ IsBankPrime(numbers[k])) => results[k]

\* The pass over a group holding 47 and 53 is over and both are prime.
C3_Witness ==
    /\ PassOver(i - 8)
    /\ \E l \in Lanes : numbers[i - 8 + l + 1] = U64(47) /\ results[i - 8 + l + 1]
    /\ \E l \in Lanes : numbers[i - 8 + l + 1] = U64(53) /\ results[i - 8 + l + 1]

\* C4: the vectorized pass runs only over groups all of whose candidates
\* fit in 32 bits, so the narrowed lanes equal the candidates; a group with
\* a candidate above 2^32 - 1 is never in the pass, every call of
\* is_prime_scalar for it gets the full 64-bit value, and each of its eight
\* verdicts comes from exactly one such call.
C4_RangeGuard ==
    /\ InPass =>
         \A l \in Lanes :
             /\ Fits32(numbers[i + l + 1])
             /\ Widen(LaneValue(l)) = numbers[i + l + 1]
    /\ (InCall /\ caller = "scalar") => n = numbers[ps_first + ps_i + 1]
    /\ pc = "done" =>
         \A k \in 1..count :
             GuardedGroup(8 * ((k - 1) \div 8)) =>
                 calls[k] = 1 /\ results[k] = ScalarVerdict[numbers[k]]

\* A batch has returned whose second group held a candidate above 2^32 - 1
\* in its sixth lane, beside seven that fit.
C4_Witness ==
    /\ pc = "done" /\ count >= 16
    /\ ~Fits32(numbers[8 + 5 + 1])
    /\ \A l \in Lanes \ {5} : Fits32(numbers[8 + l + 1])
    /\ \A l \in Lanes : calls[8 + l + 1] = 1

\* C5: results has the length of the input from the first step of process
\* on; no element is ever assigned twice and none outside 0..L-1 is ever
\* assigned; on return every element has been assigned exactly once; and
\* on the >= 16 path the groups start at multiples of 8 and the scalar
\* remainder step covers exactly the last L mod 8 indices.
C5_EachSlotOnce ==
    /\ pc # "process" => Len(results) = count
    /\ \A k \in DOMAIN writes : writes[k] <= 1 /\ (k > count => writes[k] = 0)
    /\ pc = "done" => \A k \in 1..count : writes[k] = 1
    /\ (count >= 16 /\ pc # "process") => i % 8 = 0 /\ i <= count
    /\ (count >= 16 /\ pc # "process" /\ i + 8 <= count) =>
         \A k \in 1..count : writes[k] = 1 => k <= i + 8
    /\ (count >= 16 /\ (pc = "scalar" \/ InCall) /\ ps_ret = "process") =>
         /\ ps_first = 8 * (count \div 8)
         /\ ps_count = count % 8
         /\ i = ps_first

\* 17 candidates: two groups and one trailing candidate, all assigned.
C5_Witness ==
    /\ pc = "done" /\ count = 17
    /\ ps_ret = "process" /\ ps_first = 16 /\ ps_count = 1
    /\ \A k \in 1..17 : writes[k] = 1

\* C6: is_prime_scalar returns the primality of n, and the only divisors it
\* tests are the odd d with 3 <= d <= floor(sqrt(n)), also when d * d wraps.
C6_TrialDivision ==
    /\ (pc = "return" /\ IsShort(n)) => ret = MathPrime[n[1]]
    /\ (pc = "trial" /\ TrialCond(n, d)) =>
         /\ d[1] % 2 = 1
         /\ Leq(U64(3), d)
         /\ Leq(Mul(d \o Zero(4), d \o Zero(4)), n \o Zero(4))

---------------------------------------------------------------------------
\* The life of the group starting at first.
GroupState(first) ==
    IF pc = "done" \/ i > first THEN "Done"
    ELSE IF i < first \/ pc \in {"process", "batch"} THEN "Pending"
    ELSE IF Sieving THEN "VectorTested"
    ELSE IF Resolving THEN "Resolving"
    ELSE "RangeGuardedScalar"

Groups == {8 * g : g \in 0..((count \div 8) - 1)}

Lifecycle ==
    \A first \in (IF count >= 16 THEN Groups ELSE {}) :
        /\ <<GroupState(first), GroupState(first)'>> \in
              { <<"Pending", "Pending">>, <<"Pending", "VectorTested">>,
                <<"Pending", "RangeGuardedScalar">>,
                <<"VectorTested", "VectorTested">>, <<"VectorTested", "Resolving">>,
                <<"Resolving", "Resolving">>, <<"Resolving", "Done">>,
                <<"RangeGuardedScalar", "RangeGuardedScalar">>,
                <<"RangeGuardedScalar", "Done">>,
                <<"Done", "Done">> }
        \* a group is left with its eight candidates resolved
        /\ GroupState(first)' = "Done" =>
              \A l \in Lanes : writes'[first + l + 1] = 1
        \* in ascending order
        /\ (GroupState(first)' # "Pending" /\ first >= 8) =>
              GroupState(first - 8)' = "Done"

\* Between two evaluations of the loop condition the divisor grows by 2
\* without wrapping and stays at most n: the loop cannot run for ever.
TrialProgress ==
    (pc = "trial" /\ pc' = "trial") =>
        /\ d' = Add(d, U64(2))
        /\ Lt(d, d')
        /\ Leq(d', n)
        /\ n' = n

\* The exploration of a call is cut after MaxTrial iterations.
TrialCut == pc = "trial" /\ iters = MaxTrial

---------------------------------------------------------------------------
\* C8: in a vectorized group nothing is assigned and is_prime_scalar is not
\* called before all 16 primes have been tested; then is_prime_scalar is
\* called once for each unflagged candidate and never for a flagged one,
\* a flagged candidate gets false, and a candidate gets true only if
\* is_prime_scalar returned true for it.
LaneResolved(first, l) ==
    /\ calls[first + l + 1] = (IF Flagged(l) THEN 0 ELSE 1)
    /\ writes[first + l + 1] = 1
    /\ Flagged(l) => ~results[first + l + 1]
    /\ results[first + l + 1] => ScalarVerdict[numbers[first + l + 1]]

C8_ResolveAfterBank ==
    /\ InPass =>
         \A l \in Lanes :
             /\ (tested < 16 \/ l > j) =>
                   writes[i + l + 1] = 0 /\ calls[i + l + 1] = 0
             /\ (tested = 16 /\ l < j) => LaneResolved(i, l)
             /\ (InCall /\ l = j) =>
                   ~Flagged(l) /\ calls[i + l + 1] = 1 /\ writes[i + l + 1] = 0
    /\ \A first \in {i - 8} :
         PassOver(first) => \A l \in Lanes : LaneResolved(first, l)

\* A pass is over in which lanes of both halves were flagged and lanes of
\* both halves were handed to is_prime_scalar, one of them a prime.
C8_Witness ==
    /\ PassOver(i - 8)
    /\ \E l \in 0..3 : Flagged(l)
    /\ \E l \in 4..7 : Flagged(l)
    /\ \E l \in 0..3 : ~Flagged(l) /\ results[i - 8 + l + 1]
    /\ \E l \in 4..7 : ~Flagged(l) /\ ~results[i - 8 + l + 1]

---------------------------------------------------------------------------
\* The remainder the reducer yields for candidate v and prime p.
ReducerRem(v, p) ==
    barrett_modq_u32_dual(vdupq_n_u32(v), vdupq_n_u32(v),
                          vdupq_n_u32(make_barrett_magic(U32(p))),
                          vdupq_n_u32(U32(p)))[1][1]

\* The mask of every lane is the OR of (remainder = 0 and candidate # p)
\* over the first t primes of the bank.
MaskIsOrOfFirst(t) ==
    \A l \in Lanes :
        Flagged(l) <=> \E k \in 1..t : /\ ReducerRem(LaneValue(l), Bank[k]) = <<0, 0>>
                                       /\ LaneValue(l) # U32(Bank[k])

\* One call of sieve: the next prime of the bank in ascending order; a lane
\* is flagged afterwards exactly if it was flagged before or the remainder
\* just computed for it is 0 and its candidate is not the prime.
SieveStep ==
    /\ tested = 0 => \A l \in Lanes : ~Flagged(l)
    /\ tested' = tested + 1
    /\ prime' = Bank[tested + 1]
    /\ \A l \in Lanes :
          /\ Flagged(l) => Flagged(l)'
          /\ Flagged(l)' <=> \/ Flagged(l)
                             \/ /\ LaneRem(l)' = <<0, 0>>
                                /\ LaneValue(l) # U32(prime')
          /\ LaneValue(l)' = LaneValue(l)
    /\ tested' = 16 => MaskIsOrOfFirst(16)'

\* C9: the pass starts with an all-false mask, applies the primes in
\* ascending order 2, 3, 5, ..., 53, a flag once set stays set for the
\* rest of the pass (until the verdicts of the group are written), and the
\* final flag of a lane is the OR over all 16 primes p of (remainder for
\* p = 0 and candidate # p).
C9_MaskMonotonic ==
    [][/\ Sieving => SieveStep
       /\ Resolving => \A l \in Lanes : Flagged(l)' = Flagged(l)]_vars

\* A lane flagged by 7 alone among the first primes has kept its flag to
\* the end of the pass.
C9_Witness ==
    /\ InPass /\ tested = 16
    /\ \E l \in Lanes :
          /\ Flagged(l)
          /\ Divides(7, LaneValue(l))
          /\ \A k \in {2, 3, 5} : ~Divides(k, LaneValue(l))

---------------------------------------------------------------------------
\* C10: the remainder of the reducer is 0 exactly when the prime divides
\* the candidate, also where the quotient estimate is one too large and the
\* subtraction wraps; so after t primes a lane is flagged exactly when one
\* of them divides the candidate and is not the candidate itself, and a
\* flagged candidate is never one that is_prime_scalar calls prime.
C10_ZeroIffDivides ==
    /\ tested >= 1 =>
         \A l \in Lanes :
             (LaneRem(l) = <<0, 0>>) <=> Divides(prime, LaneValue(l))
    /\ InPass =>
         \A l \in Lanes :
             /\ Flagged(l) <=> \E k \in 1..tested : /\ Divides(Bank[k], LaneValue(l))
                                                    /\ LaneValue(l) # U32(Bank[k])
             /\ Flagged(l) => ~ScalarVerdict[numbers[i + l + 1]]

\* A lane whose subtraction wrapped (its remainder is not below the prime)
\* and that the prime did not flag, beside a lane the same prime divides.
C10_Witness ==
    /\ Sieving /\ tested >= 1
    /\ \E l \in Lanes : ~Lt(LaneRem(l), U32(prime)) /\ ~Divides(prime, LaneValue(l))
    /\ \E l \in Lanes : LaneRem(l) = <<0, 0>> /\ LaneValue(l) # U32(prime)

====
